---- MODULE Spec2Model ----
(***************************************************************************)
(* The content tree of src/core/filesystem.ts: Base, Page and Directory.   *)
(* Objects live in an arena keyed by an identifier; a Directory's maps     *)
(* (pages, dirs) are JavaScript Maps, modelled as sequences of entries in  *)
(* insertion order, its staticFiles a JavaScript Set, modelled as a        *)
(* sequence without repetition.                                            *)
(*                                                                         *)
(* Values of a Data bag are records [kind, atom, items, obj]:              *)
(*   kind "scalar": a primitive, atom names it ("#1" is the number 1, "1"  *)
(*                  the string "1", any other atom a string);              *)
(*   kind "page":   a reference to a Page object, atom is its identifier;  *)
(*   kind "array":  a list of primitives, items;                           *)
(*   kind "object": a plain object with primitive values, obj.             *)
(* A Data bag is a function from the keys it has to values.                *)
(***************************************************************************)
EXTENDS Integers, Sequences, FiniteSets, TLC

\* ------------------------------------------------------------------ bounds

\* Objects (Directory and Page) that may exist where Data is cascaded.
MaxObjects == 3
\* What may exist where only the tree is built and walked: directories,
\* pages, static files and second entries of a page.
MaxTreeObjects == 5

\* Objects that may exist where destinations are updated: the root and pages.
MaxUrlObjects == 2

\* Objects that may exist where pages are moved and duplicated.
MaxMoveObjects == 4

\* HTMLDocument objects that may exist, and nodes a document may have.
MaxDocuments == 2
MaxNodes == 3

\* The arena: identifiers of the Directory and Page objects.
DirPool == <<"d0", "d1", "d2", "d3", "d4", "d5">>
PagePool == <<"a", "b", "c", "d", "e", "f">>

Dirs == {DirPool[i] : i \in 1..Len(DirPool)}
Pages == {PagePool[i] : i \in 1..Len(PagePool)}
Nodes == Dirs \cup Pages
Root == DirPool[1]
DocPool == <<"h1", "h2", "h3", "h4">>

\* "undefined" as a parent, a hash or a map lookup.
None == "undefined"

\* ------------------------------------------------------------------ values

NoObj == [x \in {} |-> ""]

Scalar(a) == [kind |-> "scalar", atom |-> a, items |-> <<>>, obj |-> NoObj]
PageRef(p) == [kind |-> "page", atom |-> p, items |-> <<>>, obj |-> NoObj]
Array(s) == [kind |-> "array", atom |-> "", items |-> s, obj |-> NoObj]
Object(f) == [kind |-> "object", atom |-> "[object Object]", items |-> <<>>, obj |-> f]

\* {} as a Data bag.
EmptyData == [x \in {} |-> Scalar("")]

\* {...a, ...b}: the keys of both, b's value winning.
Spread(a, b) ==
  [k \in (DOMAIN a) \cup (DOMAIN b) |-> IF k \in DOMAIN b THEN b[k] ELSE a[k]]

\* String(x) of a primitive: the number 1 and the string "1" both give "1".
String(a) ==
  IF a = "#1" THEN "1" ELSE IF a = "#2" THEN "2" ELSE a

\* [...new Set(s)]: the first occurrence of each element, in order.
Unique(s) ==
  LET F[i \in 0..Len(s)] ==
        IF i = 0 THEN <<>>
        ELSE IF \E j \in 1..(i - 1) : s[j] = s[i] THEN F[i - 1]
        ELSE Append(F[i - 1], s[i])
  IN F[Len(s)]

\* Array.isArray(v) ? v : (key in data) ? [v] : []
AsList(data, key) ==
  IF key \notin DOMAIN data THEN <<>>
  ELSE IF data[key].kind = "array" THEN data[key].items
  ELSE <<data[key].atom>>

\* The entries {...v} spreads: those of an object, none of undefined or a number.
Entries(data, key) ==
  IF key \in DOMAIN data /\ data[key].kind = "object" THEN data[key].obj ELSE NoObj

\* mergedKeys of get data: the default, the parent's and the node's own.
MergedKeys(parentData, pageData) ==
  Spread(Spread([x \in {"tags"} |-> "stringArray"],
                Entries(parentData, "mergedKeys")),
         Entries(pageData, "mergedKeys"))

\* The merge with the own values put before the parent's.
MergeArrayOwnFirst(type, parentData, pageData, key) ==
  LET merged == AsList(pageData, key) \o AsList(parentData, key)
  IN Array(Unique(IF type = "stringArray"
                  THEN [i \in 1..Len(merged) |-> String(merged[i])]
                  ELSE merged))

\* case "stringArray", case "array"
MergeArray(type, parentData, pageData, key) ==
  LET merged == AsList(parentData, key) \o AsList(pageData, key)
  IN Array(Unique(IF type = "stringArray"
                  THEN [i \in 1..Len(merged) |-> String(merged[i])]
                  ELSE merged))

\* The merge with the parent's entries spread over the own.
MergeObjectParentWins(parentData, pageData, key) ==
  Object(Spread(Entries(pageData, key), Entries(parentData, key)))

\* case "object"
MergeObject(parentData, pageData, key) ==
  Object(Spread(Entries(parentData, key), Entries(pageData, key)))

\* The body of get data after the cache test: parentData is the parent's
\* effective Data ({} without a parent), pageData the node's own Data (with
\* the page reference for a Page).
Cascade(parentData, pageData) ==
  LET data == Spread(parentData, pageData)
      mergedKeys == MergedKeys(parentData, pageData)
      special == {k \in DOMAIN mergedKeys :
                    mergedKeys[k] \in {"stringArray", "array", "object"}}
  IN [k \in (DOMAIN data) \cup special |->
        IF k \in special
        THEN IF mergedKeys[k] = "object"
             THEN MergeObject(parentData, pageData, k)
             ELSE MergeArray(mergedKeys[k], parentData, pageData, k)
        ELSE data[k]]

\* ------------------------------------------------------------------- paths

\* A path is [abs, segs]: "" is relative and empty, "/" absolute and empty.
Path(abs, segs) == [abs |-> abs, segs |-> segs]
EmptyPath == Path(FALSE, <<>>)
RootPath == Path(TRUE, <<>>)

\* posix.basename(path): the last segment, "" when there is none.
Basename(path) ==
  IF path.segs = <<>> THEN "" ELSE path.segs[Len(path.segs)]

\* posix.join(path, name) for a name without separators: an empty argument
\* is skipped.
Join(path, name) ==
  IF name = "" THEN path
  ELSE IF path = EmptyPath THEN Path(FALSE, <<name>>)
  ELSE Path(path.abs, Append(path.segs, name))

\* path || "/"
OrRoot(path) == IF path = EmptyPath THEN RootPath ELSE path

\* -------------------------------------------------------------------- maps

\* A JavaScript Map as the sequence of its entries [key, value].
MapHas(m, key) == \E i \in 1..Len(m) : m[i].key = key

MapGet(m, key) ==
  IF MapHas(m, key)
  THEN m[CHOOSE i \in 1..Len(m) : m[i].key = key].value
  ELSE None

\* Map.set had a new key gone first.
MapSetFirst(m, key, value) ==
  IF MapHas(m, key)
  THEN [i \in 1..Len(m) |->
          IF m[i].key = key THEN [key |-> key, value |-> value] ELSE m[i]]
  ELSE <<[key |-> key, value |-> value]>> \o m

\* Map.set: a key the map has keeps its place, a new key goes last.
MapSet(m, key, value) ==
  IF MapHas(m, key)
  THEN [i \in 1..Len(m) |->
          IF m[i].key = key THEN [key |-> key, value |-> value] ELSE m[i]]
  ELSE Append(m, [key |-> key, value |-> value])

\* Map.delete
MapDelete(m, key) == SelectSeq(m, LAMBDA e : e.key # key)

\* Map.values()
MapValues(m) == [i \in 1..Len(m) |-> m[i].value]

\* Set.add on a Set kept as the sequence of its elements.
SetAdd(s, x) == IF \E i \in 1..Len(s) : s[i] = x THEN s ELSE Append(s, x)

\* ------------------------------------------------------------------- state

VARIABLES
  src,          \* Base.src.path of every object
  dest,         \* Base.dest: [path, ext, hash]
  parent,       \* Base.#parent
  baseData,     \* Base.#data, the own Data
  cache,        \* Base.#cache: [set, val], set FALSE for undefined
  pages,        \* Directory.pages
  dirs,         \* Directory.dirs
  staticFiles,  \* Directory.staticFiles
  components,   \* Directory.components: [set, map], set FALSE for undefined
  created,      \* how many Directory objects exist
  made,         \* how many Page objects exist
  op,           \* the last call: [name, this, hit]
  ret,          \* what the last call returned
  content,      \* Page.#content: [kind, val], kind "undefined" for none
  document,     \* Page.#document: the HTMLDocument object held, or None
  heap,         \* the HTMLDocument objects: the nodes of each
  handle        \* per page, the HTMLDocument that a caller got from its
                \* get document since content or document was last assigned

\* What a page is written from.
body == <<content, document, heap, handle>>

vars == <<src, dest, parent, baseData, cache, pages, dirs, staticFiles,
          components, created, made, op, ret, body>>

NoCache == [set |-> FALSE, val |-> EmptyData]
NoContent == [kind |-> "undefined", val |-> ""]
NoComponents == [set |-> FALSE, map |-> NoObj]

\* The Directory objects constructed so far.
Live == {DirPool[i] : i \in 1..created}
\* The Page objects constructed so far.
Made == {PagePool[i] : i \in 1..made}
Objects == Live \cup Made

\* Base's constructor on a source path without a date prefix.
NewDest(path) == [path |-> path, ext |-> "", hash |-> None]

Call(name, this, hit) == [name |-> name, this |-> this, hit |-> hit]

Init ==
  /\ src = [n \in Nodes |-> IF n = Root THEN RootPath ELSE EmptyPath]
  /\ dest = [n \in Nodes |-> NewDest(src[n])]
  /\ parent = [n \in Nodes |-> None]
  /\ baseData = [n \in Nodes |-> EmptyData]
  /\ cache = [n \in Nodes |-> NoCache]
  /\ pages = [d \in Dirs |-> <<>>]
  /\ dirs = [d \in Dirs |-> <<>>]
  /\ staticFiles = [d \in Dirs |-> <<>>]
  /\ components = [d \in Dirs |-> NoComponents]
  /\ created = 1
  /\ made = 0
  /\ op = Call("new", Root, FALSE)
  /\ ret = None
  /\ content = [p \in Pages |-> NoContent]
  /\ document = [p \in Pages |-> None]
  /\ heap = <<>>
  /\ handle = [p \in Pages |-> None]

\* -------------------------------------------------------- effective Data

\* pageData of get data: a Page puts its own reference under the own Data.
PageData(n, own) ==
  IF n \in Pages THEN Spread([x \in {"page"} |-> PageRef(n)], own) ELSE own

RECURSIVE Filled(_, _)
\* The caches after n.data is read with the caches c: a populated cache is
\* returned as it is, otherwise the parent's effective Data is read first
\* (populating its cache) and the merge is memoized.
Filled(c, n) ==
  IF c[n].set THEN c
  ELSE LET up == IF parent[n] = None THEN c ELSE Filled(c, parent[n])
           parentData == IF parent[n] = None THEN EmptyData
                         ELSE up[parent[n]].val
       IN [up EXCEPT ![n] = [set |-> TRUE,
                             val |-> Cascade(parentData,
                                             PageData(n, baseData[n]))]]

\* Base.refreshCache that reports but keeps the memo.
DroppedKept(c, n) == c

\* Base.refreshCache on the caches c.
Dropped(c, n) == [c EXCEPT ![n] = NoCache]

RECURSIVE Refreshed(_, _)
RECURSIVE RefreshedEach(_, _)
\* refreshCache on the caches c: Base's for a Page; Directory's goes on to
\* the pages and the directories it stores only when its own cache was
\* populated.
Refreshed(c, n) ==
  IF ~c[n].set THEN c
  ELSE IF n \in Pages THEN Dropped(c, n)
  ELSE RefreshedEach(Dropped(c, n),
                     MapValues(pages[n]) \o MapValues(dirs[n]))

\* forEach over the stored objects, in order.
RefreshedEach(c, nodes) ==
  IF nodes = <<>> THEN c
  ELSE RefreshedEach(Refreshed(c, Head(nodes)), Tail(nodes))

\* get data
ReadData(n) ==
  /\ op' = Call("data", n, cache[n].set)
  /\ cache' = Filled(cache, n)
  /\ ret' = cache'[n].val
  /\ UNCHANGED <<body, src, dest, parent, baseData, pages, dirs, staticFiles,
                 components, created, made>>

\* set data that assigns the own Data and keeps the memo.
SetDataKept(n, data) ==
  /\ baseData' = [baseData EXCEPT ![n] = data]
  /\ op' = Call("setData", n, cache[n].set)
  /\ ret' = None
  /\ UNCHANGED <<body, src, dest, parent, cache, pages, dirs, staticFiles,
                 components, created, made>>

\* set data
SetData(n, data) ==
  /\ cache' = [cache EXCEPT ![n] = NoCache]
  /\ baseData' = [baseData EXCEPT ![n] = data]
  /\ op' = Call("setData", n, cache[n].set)
  /\ ret' = None
  /\ UNCHANGED <<body, src, dest, parent, pages, dirs, staticFiles, components,
                 created, made>>

\* set baseData: the assignment, then this.refreshCache()
SetBaseData(n, data) ==
  /\ baseData' = [baseData EXCEPT ![n] = data]
  /\ cache' = Refreshed(cache, n)
  /\ op' = Call("setBaseData", n, cache[n].set)
  /\ ret' = None
  /\ UNCHANGED <<body, src, dest, parent, pages, dirs, staticFiles, components,
                 created, made>>

\* refreshCache()
RefreshCache(n) ==
  /\ op' = Call("refreshCache", n, cache[n].set)
  /\ cache' = Refreshed(cache, n)
  /\ ret' = cache[n].set
  /\ UNCHANGED <<body, src, dest, parent, baseData, pages, dirs, staticFiles,
                 components, created, made>>

\* ------------------------------------------------------------------- tree

\* set parent: dest.path is joined from the parent's and the own basename.
Reparented(d, n, par) ==
  [d EXCEPT ![n].path =
     Join(IF par = None THEN RootPath ELSE OrRoot(d[par].path),
          Basename(d[n].path))]

\* new Page({path}): Base's constructor, on the source path "/<identifier>".
NewPage ==
  /\ made < Len(PagePool)
  /\ LET page == PagePool[made + 1]
         path == Path(TRUE, <<page>>)
     IN /\ src' = [src EXCEPT ![page] = path]
        /\ dest' = [dest EXCEPT ![page] = NewDest(path)]
        /\ op' = Call("new", page, FALSE)
        /\ ret' = page
  /\ made' = made + 1
  /\ UNCHANGED <<body, parent, baseData, cache, pages, dirs, staticFiles,
                 components, created>>

\* new Page(): Base's constructor without a source, whose path is "".
NewPageNoSrc ==
  /\ made < Len(PagePool)
  /\ LET page == PagePool[made + 1]
     IN /\ src' = [src EXCEPT ![page] = EmptyPath]
        /\ dest' = [dest EXCEPT ![page] = NewDest(EmptyPath)]
        /\ op' = Call("new", page, FALSE)
        /\ ret' = page
  /\ made' = made + 1
  /\ UNCHANGED <<body, parent, baseData, cache, pages, dirs, staticFiles,
                 components, created>>

\* createDirectory(name): a new Directory, reparented and stored under name.
CreateDirectory(this, name) ==
  /\ created < Len(DirPool)
  /\ LET directory == DirPool[created + 1]
         path == Join(src[this], name)
     IN /\ src' = [src EXCEPT ![directory] = path]
        /\ dest' = Reparented([dest EXCEPT ![directory] = NewDest(path)],
                              directory, this)
        /\ parent' = [parent EXCEPT ![directory] = this]
        /\ dirs' = [dirs EXCEPT ![this] = MapSet(@, name, directory)]
        /\ op' = Call("createDirectory", this, MapHas(dirs[this], name))
        /\ ret' = directory
  /\ created' = created + 1
  /\ UNCHANGED <<body, baseData, cache, pages, staticFiles, components, made>>

\* setPage(name, page) had it left the new page's hash alone.
SetPageOwnHash(this, name, page) ==
  LET moved == Reparented(dest, page, this)
  IN /\ parent' = [parent EXCEPT ![page] = this]
     /\ pages' = [pages EXCEPT ![this] = MapSet(@, name, page)]
     /\ dest' = [moved EXCEPT ![page].path =
                   Join(moved[this].path, Basename(moved[page].path))]
     /\ op' = Call("setPage", this, MapHas(pages[this], name))
     /\ ret' = None
     /\ UNCHANGED <<body, src, baseData, cache, dirs, staticFiles, components,
                    created, made>>

\* setPage(name, page)
SetPage(this, name, page) ==
  LET oldPage == MapGet(pages[this], name)
      moved == Reparented(dest, page, this)
      joined == [moved EXCEPT ![page].path =
                   Join(moved[this].path, Basename(moved[page].path))]
  IN /\ parent' = [parent EXCEPT ![page] = this]
     /\ pages' = [pages EXCEPT ![this] = MapSet(@, name, page)]
     /\ dest' = IF oldPage # None
                THEN [joined EXCEPT ![page].hash = joined[oldPage].hash]
                ELSE joined
     /\ op' = Call("setPage", this, oldPage # None)
     /\ ret' = None
     /\ UNCHANGED <<body, src, baseData, cache, dirs, staticFiles, components,
                    created, made>>

\* unsetPage(name)
UnsetPage(this, name) ==
  /\ pages' = [pages EXCEPT ![this] = MapDelete(@, name)]
  /\ op' = Call("unsetPage", this, MapHas(pages[this], name))
  /\ ret' = None
  /\ UNCHANGED <<body, src, dest, parent, baseData, cache, dirs, staticFiles,
                 components, created, made>>

\* setStaticFile(file)
SetStaticFile(this, file) ==
  /\ staticFiles' = [staticFiles EXCEPT ![this] = SetAdd(@, file)]
  /\ op' = Call("setStaticFile", this, FALSE)
  /\ ret' = None
  /\ UNCHANGED <<body, src, dest, parent, baseData, cache, pages, dirs, components,
                 created, made>>

\* dest.hash = hash, the writer's record of the content written.
SetHash(page, hash) ==
  /\ dest' = [dest EXCEPT ![page].hash = hash]
  /\ op' = Call("hash", page, FALSE)
  /\ ret' = None
  /\ UNCHANGED <<body, src, parent, baseData, cache, pages, dirs, staticFiles,
                 components, created, made>>

\* components = registry, the component loader's assignment.
SetComponents(this, registry) ==
  /\ components' = [components EXCEPT ![this] = registry]
  /\ op' = Call("components", this, FALSE)
  /\ ret' = None
  /\ UNCHANGED <<body, src, dest, parent, baseData, cache, pages, dirs,
                 staticFiles, created, made>>

RECURSIVE Components(_)
\* getComponents(): undefined without an own registry, the own registry at
\* the root, otherwise the parent's result with the own entries over it.
Components(d) ==
  IF ~components[d].set THEN NoComponents
  ELSE IF parent[d] # None
  THEN [set |-> TRUE,
        map |-> Spread(Components(parent[d]).map, components[d].map)]
  ELSE components[d]

\* getPages() had it walked the directories before the own pages.
RECURSIVE PagesOfChildrenFirst(_)
RECURSIVE PagesOfEachChildrenFirst(_)
PagesOfChildrenFirst(d) ==
  PagesOfEachChildrenFirst(MapValues(dirs[d])) \o MapValues(pages[d])
PagesOfEachChildrenFirst(ds) ==
  IF ds = <<>> THEN <<>>
  ELSE PagesOfChildrenFirst(Head(ds)) \o PagesOfEachChildrenFirst(Tail(ds))

RECURSIVE PagesOf(_)
RECURSIVE PagesOfEach(_)
\* getPages(): the sequence the generator yields.
PagesOf(d) == MapValues(pages[d]) \o PagesOfEach(MapValues(dirs[d]))
\* getPages(): yield* dir.getPages() for each of the directories ds in turn.
PagesOfEach(ds) ==
  IF ds = <<>> THEN <<>> ELSE PagesOf(Head(ds)) \o PagesOfEach(Tail(ds))

RECURSIVE StaticFilesOf(_)
RECURSIVE StaticFilesOfEach(_)
\* getStaticFiles(): the sequence the generator yields.
StaticFilesOf(d) == staticFiles[d] \o StaticFilesOfEach(MapValues(dirs[d]))
\* getStaticFiles(): yield* dir.getStaticFiles() for each of ds in turn.
StaticFilesOfEach(ds) ==
  IF ds = <<>> THEN <<>>
  ELSE StaticFilesOf(Head(ds)) \o StaticFilesOfEach(Tail(ds))

\* ---------------------------------------------------------------- content

\* A Content value is [kind, val]: a string, a Uint8Array ("bytes", val the
\* string its toString() gives), or undefined.
Text(t) == [kind |-> "string", val |-> t]
Bytes(t) == [kind |-> "bytes", val |-> t]

\* stringToDocument(string): the nodes of the document parsed, one for each
\* character of the markup.
StringToDocument(t) == [i \in 1..Len(t) |-> SubSeq(t, i, i)]

\* documentToString(document): the markup of the nodes, in order.
RECURSIVE DocumentToString(_)
DocumentToString(nodes) ==
  IF nodes = <<>> THEN ""
  ELSE Head(nodes) \o DocumentToString(Tail(nodes))

\* The HTMLDocument objects are the elements of heap, named by DocPool.
DocIndex(doc) == CHOOSE i \in 1..Len(DocPool) : DocPool[i] = doc
NodesOf(h, doc) == h[DocIndex(doc)]

\* A value is truthy: undefined and the empty string are not.
Truthy(c) == c.kind = "bytes" \/ (c.kind = "string" /\ c.val # "")

\* set content(content): a Uint8Array is stored as it is, any other truthy
\* value as its toString(), a falsy one as it is.
SetContent(page, c) ==
  /\ document' = [document EXCEPT ![page] = None]
  /\ content' = [content EXCEPT ![page] = c]
  /\ handle' = [handle EXCEPT ![page] = None]
  /\ op' = Call("setContent", page, document[page] # None)
  /\ ret' = None
  /\ UNCHANGED <<heap, src, dest, parent, baseData, cache, pages,
                 dirs, staticFiles, components, created, made>>

\* set content(content) with a value whose toString() throws: the document
\* is dropped before the conversion is attempted, and nothing is stored.
SetContentThrows(page) ==
  /\ document' = [document EXCEPT ![page] = None]
  /\ op' = Call("setContentThrows", page, document[page] # None)
  /\ ret' = None
  /\ UNCHANGED <<content, heap, handle, src, dest, parent, baseData, cache,
                 pages, dirs, staticFiles, components, created, made>>

\* get content: a held document is serialized into the content and dropped.
GetContent(page) ==
  /\ content' =
       IF document[page] # None
       THEN [content EXCEPT
               ![page] = Text(DocumentToString(NodesOf(heap, document[page])))]
       ELSE content
  /\ document' = [document EXCEPT ![page] = None]
  /\ op' = Call("content", page, document[page] # None)
  /\ ret' = content'[page]
  /\ UNCHANGED <<heap, handle, src, dest, parent, baseData, cache, pages,
                 dirs, staticFiles, components, created, made>>

\* The document a page holds is parsed from its content on get document.
Parses(page) ==
  /\ document[page] = None
  /\ Truthy(content[page])
  /\ dest[page].ext \in {".html", ".htm"}

\* set document(document) with a new HTMLDocument of the markup t.
SetDocument(page, t) ==
  /\ Len(heap) < Len(DocPool)
  /\ heap' = Append(heap, StringToDocument(t))
  /\ content' = [content EXCEPT ![page] = NoContent]
  /\ document' = [document EXCEPT ![page] = DocPool[Len(heap) + 1]]
  /\ handle' = [handle EXCEPT ![page] = None]
  /\ op' = Call("setDocument", page, content[page] # NoContent)
  /\ ret' = None
  /\ UNCHANGED <<src, dest, parent, baseData, cache, pages, dirs,
                 staticFiles, components, created, made>>

\* set document(undefined)
UnsetDocument(page) ==
  /\ content' = [content EXCEPT ![page] = NoContent]
  /\ document' = [document EXCEPT ![page] = None]
  /\ handle' = [handle EXCEPT ![page] = None]
  /\ op' = Call("setDocument", page, content[page] # NoContent)
  /\ ret' = None
  /\ UNCHANGED <<heap, src, dest, parent, baseData, cache, pages, dirs,
                 staticFiles, components, created, made>>

\* get document: without a held document, truthy content of an .html or
\* .htm page is parsed into a new document, which is held; the content
\* stays. The caller keeps the document returned.
GetDocument(page) ==
  /\ Parses(page) => Len(heap) < Len(DocPool)
  /\ heap' = IF Parses(page)
             THEN Append(heap, StringToDocument(content[page].val))
             ELSE heap
  /\ document' = IF Parses(page)
                 THEN [document EXCEPT ![page] = DocPool[Len(heap) + 1]]
                 ELSE document
  /\ op' = Call("document", page, Parses(page))
  /\ ret' = document'[page]
  /\ handle' = IF document'[page] # None
               THEN [handle EXCEPT ![page] = document'[page]]
               ELSE handle
  /\ UNCHANGED <<content, src, dest, parent, baseData, cache, pages, dirs,
                 staticFiles, components, created, made>>

\* The caller appends a node to the document it got from the page.
Mutate(page, node) ==
  /\ handle[page] # None
  /\ heap' = [heap EXCEPT ![DocIndex(handle[page])] = Append(@, node)]
  /\ op' = Call("mutate", page, FALSE)
  /\ ret' = None
  /\ UNCHANGED <<content, document, handle, src, dest, parent, baseData,
                 cache, pages, dirs, staticFiles, components, created, made>>

\* dest.ext = ext, as the bundler assigns it.
SetExt(page, ext) ==
  /\ dest' = [dest EXCEPT ![page].ext = ext]
  /\ op' = Call("ext", page, FALSE)
  /\ ret' = None
  /\ UNCHANGED <<body, src, parent, baseData, cache, pages, dirs,
                 staticFiles, components, created, made>>

\* ------------------------------------------------------------ destination

\* The segments joined by "/".
RECURSIVE Joined(_)
Joined(segs) ==
  IF segs = <<>> THEN ""
  ELSE IF Len(segs) = 1 THEN segs[1]
  ELSE segs[1] \o "/" \o Joined(Tail(segs))

\* The string a path is.
Str(path) == (IF path.abs THEN "/" ELSE "") \o Joined(path.segs)

\* The characters of a string.
Char(s, i) == SubSeq(s, i, i)

\* The segments of the string s from position i on, piece the segment begun.
RECURSIVE Segments(_, _, _)
Segments(s, i, piece) ==
  IF i > Len(s) THEN (IF piece = "" THEN <<>> ELSE <<piece>>)
  ELSE IF Char(s, i) = "/"
  THEN (IF piece = "" THEN <<>> ELSE <<piece>>) \o Segments(s, i + 1, "")
  ELSE Segments(s, i + 1, piece \o Char(s, i))

\* The path a string without a trailing separator is.
Parse(s) == Path(Len(s) > 0 /\ Char(s, 1) = "/", Segments(s, 1, ""))

\* posix.extname(url): from the last "." of the last segment on, "" when it
\* has none or begins with its only one.
Extname(url) ==
  LET dots == {i \in 1..Len(url) :
                 /\ Char(url, i) = "."
                 /\ \A j \in i..Len(url) : Char(url, j) # "/"
                 /\ \A j \in (i + 1)..Len(url) : Char(url, j) # "."}
  IN IF dots = {} THEN ""
     ELSE LET i == CHOOSE i \in dots : TRUE
          IN IF i = 1 \/ Char(url, i - 1) = "/" THEN ""
             ELSE SubSeq(url, i, Len(url))

\* {...this.dest, ...dest} had it joined the path given to the current one.
MergedDestJoined(d, frag) ==
  IF "path" \in DOMAIN frag
  THEN Spread(d, [frag EXCEPT !["path"] = Join(d.path, Basename(frag.path))])
  ELSE Spread(d, frag)

\* {...this.dest, ...dest}
MergedDest(d, frag) == Spread(d, frag)

\* The url of updateDest had the extension always been appended.
UrlWithExt(path, ext, prettyUrl) == Str(path) \o ext

\* The url updateDest derives from the merged dest.
Url(path, ext, prettyUrl) ==
  IF ext = ".html"
  THEN IF Basename(path) = "index"
       THEN SubSeq(Str(path), 1, Len(Str(path)) - 5)
       ELSE IF prettyUrl = "no-html-extension" THEN Str(path)
       ELSE Str(path) \o ext
  ELSE Str(path) \o ext

\* this.data.url = url on the caches c: the effective Data is read, which
\* populates the caches, and the key is set in the object read.
UrlSet(c, page, url) ==
  [Filled(c, page) EXCEPT
     ![page].val = Spread(@, [x \in {"url"} |-> Scalar(url)])]

\* updateDest(dest, prettyUrl); the call is recorded with its arguments and
\* with whether it repeats the call before it.
UpdateDest(page, frag, prettyUrl) ==
  LET merged == MergedDest(dest[page], frag)
  IN /\ dest' = [dest EXCEPT ![page] = merged]
     /\ cache' = UrlSet(cache, page, Url(merged.path, merged.ext, prettyUrl))
     /\ op' = [name |-> "updateDest", this |-> page, hit |-> cache[page].set,
               dest |-> frag, prettyUrl |-> prettyUrl,
               again |-> /\ op.name = "updateDest"
                         /\ op.this = page
                         /\ op.dest = frag
                         /\ op.prettyUrl = prettyUrl]
     /\ ret' = None
     /\ UNCHANGED <<body, src, parent, baseData, pages, dirs, staticFiles,
                    components, created, made>>

\* Page.create(url, content): new Page(), page.data = {url, content},
\* page.content = content, page.updateDest({path, ext}), whose read of the
\* effective Data merges the own Data just assigned (there is no parent).
Create(url, c) ==
  /\ made < Len(PagePool)
  /\ LET page == PagePool[made + 1]
         ext == Extname(url)
         path == Parse(IF ext # "" THEN SubSeq(url, 1, Len(url) - Len(ext))
                       ELSE url)
         merged == MergedDest(NewDest(EmptyPath),
                              [x \in {"path", "ext"} |->
                                 IF x = "path" THEN path ELSE ext])
         own == ("url" :> Scalar(url)) @@ ("content" :> Scalar(c.val))
         read == [set |-> TRUE,
                  val |-> Cascade(EmptyData, PageData(page, own))]
     IN /\ src' = [src EXCEPT ![page] = EmptyPath]
        /\ baseData' = [baseData EXCEPT ![page] = own]
        /\ content' = [content EXCEPT ![page] = c]
        /\ document' = [document EXCEPT ![page] = None]
        /\ handle' = [handle EXCEPT ![page] = None]
        /\ dest' = [dest EXCEPT ![page] = merged]
        /\ cache' = UrlSet([cache EXCEPT ![page] = read], page,
                           Url(merged.path, merged.ext, "false"))
        /\ op' = Call("create", page, FALSE)
        /\ ret' = page
  /\ made' = made + 1
  /\ UNCHANGED <<heap, parent, pages, dirs, staticFiles, components, created>>

\* set parent
SetParent(n, par) ==
  /\ dest' = Reparented(dest, n, par)
  /\ parent' = [parent EXCEPT ![n] = par]
  /\ op' = Call("setParent", n, FALSE)
  /\ ret' = None
  /\ UNCHANGED <<body, src, baseData, cache, pages, dirs, staticFiles,
                 components, created, made>>

\* path += suffix
Suffixed(path, suffix) ==
  IF path.segs = <<>> THEN Path(path.abs, <<suffix>>)
  ELSE Path(path.abs,
            [path.segs EXCEPT ![Len(path.segs)] = @ \o suffix])

\* delete data[key]
Without(data, key) == [k \in (DOMAIN data) \ {key} |-> data[k]]

\* duplicate(index, data); the call is recorded with its index.
Duplicate(this, index, data) ==
  /\ made < Len(PagePool)
  /\ LET page == PagePool[made + 1]
         read == Filled(cache, this)
         built == [dest EXCEPT ![page] = NewDest(src[this])]
     IN /\ src' = [src EXCEPT
                     ![page] = Suffixed(src[this],
                                        "[" \o String(index) \o "]")]
        /\ parent' = [parent EXCEPT ![page] = parent[this]]
        /\ dest' = [Reparented(built, page, parent[this]) EXCEPT
                      ![page] = dest[this]]
        /\ baseData' = [baseData EXCEPT
                          ![page] = Without(Spread(read[this].val, data),
                                            "page")]
        /\ cache' = [read EXCEPT ![page] = NoCache]
        /\ op' = [name |-> "duplicate", this |-> this, hit |-> cache[this].set,
                  index |-> index]
        /\ ret' = page
  /\ made' = made + 1
  /\ UNCHANGED <<body, pages, dirs, staticFiles, components, created>>

\* ---------------------------------------------------------- specifications

\* Own Data the loader assigns in the cache specification.
Title == [x \in {"title"} |-> Scalar("a")]
CacheBags == {EmptyData, Title}

\* The walker's calls: at most MaxObjects objects are made, and a directory
\* or a new page is stored under name.
Walk(name) ==
  \/ created + made < MaxObjects /\ NewPage
  \/ created + made < MaxObjects
       /\ \E this \in Live : CreateDirectory(this, name)
  \/ \E this \in Live, page \in Made :
       parent[page] = None /\ SetPage(this, name, page)

\* The cache of effective Data under every interleaving of the calls.
Next ==
  \/ Walk("a")
  \/ \E n \in Objects : ReadData(n)
  \/ \E n \in Objects, data \in CacheBags : SetData(n, data)
  \/ \E n \in Objects, data \in CacheBags : SetBaseData(n, data)
  \/ \E n \in Objects : RefreshCache(n)

Spec == Init /\ [][Next]_vars

\* ------------------------------------------------- the cache of effective Data

\* What n.parent.data returns in the state reached ({} without a parent).
ParentData(c, n) == IF parent[n] = None THEN EmptyData ELSE c[parent[n]].val

\* The objects a directory's maps reach: the pages and directories stored in
\* it, at any depth.
RECURSIVE Subtree(_)
Subtree(d) ==
  LET stored == {pages[d][i].value : i \in 1..Len(pages[d])}
      below == {dirs[d][i].value : i \in 1..Len(dirs[d])}
  IN stored \cup below \cup UNION {Subtree(e) : e \in below}

\* The object the call of a step is made on: a step that is a call on n
\* has n as its receiver.
Receiver == {op'.this}

\* C1: per node the cache is clean or dirty. An object is constructed dirty;
\* a read while dirty computes the merge, memoizes it and returns it; a read
\* while clean returns the memo and changes no cache; refreshCache() on a
\* clean node makes it dirty and returns true, on a dirty node changes no
\* cache and returns false; so it returns false right after an own-Data
\* assignment to the node and true right after a read of the node.
CacheStateMachine ==
  /\ \A n \in Nodes : ~cache[n].set
  /\ [][/\ \A n \in Nodes :
            (n \notin Objects /\ n \in Objects') => ~cache'[n].set
        /\ \A n \in Receiver :
          /\ ReadData(n) =>
               /\ cache'[n].set
               /\ ret' = cache'[n].val
               /\ cache[n].set => (cache' = cache /\ ret' = cache[n].val)
               /\ ~cache[n].set =>
                    ret' = Cascade(ParentData(cache', n),
                                   PageData(n, baseData[n]))
          /\ RefreshCache(n) =>
               /\ ~cache'[n].set
               /\ ret' = cache[n].set
               /\ ~cache[n].set => cache' = cache
               /\ (op.this = n /\ op.name \in {"setData", "setBaseData"})
                    => ret' = FALSE
               /\ (op.this = n /\ op.name = "data") => ret' = TRUE
          /\ (SetData(n, baseData'[n]) \/ SetBaseData(n, baseData'[n]))
               => ~cache'[n].set
     ]_vars

\* C1 witness: refreshCache() has just returned true on a node that a read
\* had made clean, and the node is dirty again.
CacheStateMachineWitness ==
  /\ op.name = "refreshCache"
  /\ op.hit
  /\ ret = TRUE
  /\ ~cache[op.this].set
  /\ baseData[op.this] # EmptyData

\* C2: when the own Data of a node is replaced (by either setter) after its
\* effective Data was read, the next read of the node returns the merge of
\* the parent's effective Data and the new own Data, computed anew.
FreshAfterReplace ==
  [][\A n \in Receiver :
       (op.this = n /\ op.name \in {"setData", "setBaseData"} /\ op.hit
          /\ ReadData(n))
         => /\ ret' = Cascade(ParentData(cache', n), PageData(n, baseData[n]))
            /\ \A k \in DOMAIN ret' :
                 k \notin DOMAIN MergedKeys(ParentData(cache', n), baseData[n])
                   => IF k \in DOMAIN PageData(n, baseData[n])
                      THEN ret'[k] = PageData(n, baseData[n])[k]
                      ELSE ret'[k] = ParentData(cache', n)[k]
    ]_vars

\* C2 witness: the own Data of a node whose effective Data had been read has
\* just been replaced by Data with another title than the one it had merged.
FreshAfterReplaceWitness ==
  /\ op.name \in {"setData", "setBaseData"}
  /\ op.hit
  /\ baseData[op.this] = EmptyData
  /\ parent[op.this] # None
  /\ ~cache[op.this].set

\* C3: refreshCache() on a directory whose cache is populated returns true
\* and leaves no populated cache in the directory's subtree, and a second
\* refreshCache() right after it returns false and changes no cache.
CascadingInvalidation ==
  [][\A d \in Dirs :
       /\ (RefreshCache(d) /\ cache[d].set)
            => /\ ret' = TRUE
               /\ \A n \in Subtree(d) \cup {d} : ~cache'[n].set
       /\ (RefreshCache(d) /\ op.name = "refreshCache" /\ op.this = d)
            => (ret' = FALSE /\ cache' = cache)
    ]_vars

\* ------------------------------------------------------------ the cascade

\* Own Data the loader assigns where the merge itself is checked: tags and a
\* key k as lists, as scalars, as numbers and strings, an object o, a scalar
\* title, and declarations of merge strategies for k and for o.
TagsA ==
  ("tags" :> Array(<<"a">>)) @@ ("k" :> Scalar("#1"))
    @@ ("mergedKeys" :> Object([x \in {"k"} |-> "array"]))
TagsAB == ("tags" :> Array(<<"a", "b">>)) @@ ("k" :> Array(<<"1", "#1">>))
ObjectX ==
  ("o" :> Object([x \in {"x"} |-> "a"])) @@ ("title" :> Scalar("a"))
    @@ ("mergedKeys" :> Object([x \in {"o"} |-> "object"]))
ObjectXY ==
  ("o" :> Object(("x" :> "b") @@ ("y" :> "b"))) @@ ("title" :> Scalar("b"))
    @@ ("tags" :> Scalar("#1"))
Strings ==
  ("k" :> Array(<<"#1", "1", "a">>))
    @@ ("mergedKeys" :> Object([x \in {"k"} |-> "stringArray"]))
CascadeBags == {TagsA, TagsAB, ObjectX, ObjectXY, Strings}
\* The own Data the loader assigns to a page.
FrontMatters == {TagsAB, ObjectXY}

\* The keys of the Data above.
Keys == {"tags", "k", "o", "title", "mergedKeys", "page"}

\* No effective Data has been read yet: the tree is being built and loaded.
Loading == \A n \in Nodes : ~cache[n].set

\* One build: the walker and the loader make the tree, store each page once
\* and assign the own Data, then the effective Data is read.
NextCascade ==
  \/ Loading /\ Walk("a")
  \/ Loading /\ \E n \in Live, data \in CascadeBags : SetData(n, data)
  \/ Loading /\ \E n \in Made, data \in FrontMatters : SetData(n, data)
  \/ \E n \in Objects : ReadData(n)

SpecCascade == Init /\ [][NextCascade]_vars

\* A value as the list the claim counts it as: an array as it is, any other
\* value as a list of one, a missing key as the empty list.
ListValue(data, key) ==
  IF key \notin DOMAIN data THEN <<>>
  ELSE IF data[key].kind = "array" THEN data[key].items
  ELSE <<data[key].atom>>

\* The list with every element coerced to string under stringArray.
Coerced(type, list) ==
  IF type = "stringArray" THEN [i \in 1..Len(list) |-> String(list[i])]
  ELSE list

Elements(list) == {list[i] : i \in 1..Len(list)}

FirstAt(list, x) == CHOOSE i \in 1..Len(list) :
                      list[i] = x /\ \A j \in 1..(i - 1) : list[j] # x

\* value is the array of the elements of list, each once, ordered by first
\* occurrence in list.
IsFirstOccurrences(value, list) ==
  /\ value.kind = "array"
  /\ Elements(value.items) = Elements(list)
  /\ \A i, j \in 1..Len(value.items) :
       i < j => /\ value.items[i] # value.items[j]
                /\ FirstAt(list, value.items[i]) < FirstAt(list, value.items[j])

\* The own values of key along the chain from the root to n, in that order.
RECURSIVE ChainList(_, _)
ChainList(n, key) ==
  (IF parent[n] = None THEN <<>> ELSE ChainList(parent[n], key))
    \o ListValue(PageData(n, baseData[n]), key)

\* n and its ancestors.
RECURSIVE Chain(_)
Chain(n) == {n} \cup (IF parent[n] = None THEN {} ELSE Chain(parent[n]))

\* key is merged as a string list at every level of n's chain: no own Data
\* of the chain declares another strategy for it.
TagsByDefault(n) ==
  \A m \in Chain(n) : "tags" \notin DOMAIN Entries(baseData[m], "mergedKeys")

\* Every populated cache of the tree, on tags merged by default: the values
\* of the chain, ancestors first, as strings, each once; and the example of
\* directory tags ["a"] over page tags ["a", "b"].
ChainMerged ==
  \A n \in Objects :
    (cache[n].set /\ TagsByDefault(n)) =>
      /\ IsFirstOccurrences(cache[n].val["tags"],
                            Coerced("stringArray", ChainList(n, "tags")))
      /\ (/\ n \in Pages
          /\ parent[n] = Root
          /\ ListValue(baseData[Root], "tags") = <<"a">>
          /\ ListValue(baseData[n], "tags") = <<"a", "b">>)
           => cache[n].val["tags"].items = <<"a", "b">>

\* C4: a read that computes the effective Data gives, for each key whose
\* strategy there is array or stringArray, the parent's effective value
\* followed by the own value (a value that is no array as a list of one, a
\* missing key as none), as strings under stringArray, each element once at
\* its first place; so along a chain ancestors' values come before
\* descendants' and none twice.
ArrayMerge ==
  /\ []ChainMerged
  /\ [][\A n \in Receiver :
             (~cache[n].set /\ ReadData(n)) =>
               LET up == ParentData(cache', n)
                   own == PageData(n, baseData[n])
                   types == MergedKeys(up, own)
               IN \A key \in DOMAIN types :
                    types[key] \in {"array", "stringArray"} =>
                      IsFirstOccurrences(
                        ret'[key],
                        Coerced(types[key],
                                ListValue(up, key) \o ListValue(own, key)))
       ]_vars

\* C4 witness: a page under a directory has been read; the directory's
\* effective k is the number 1, declared array, and the page's own k lists
\* the string "1" and the number 1, so the page's k is <<#1, "1">>.
ArrayMergeWitness ==
  /\ op.name = "data"
  /\ ~op.hit
  /\ op.this \in Pages
  /\ parent[op.this] # None
  /\ baseData[op.this] = TagsAB
  /\ ret["k"] = Array(<<"#1", "1">>)
  /\ ret["tags"] = Array(<<"a", "b">>)

\* The strategy the nearest declaration of key gives, from n's own
\* mergedKeys up through the ancestors', tags being stringArray by default.
RECURSIVE Declared(_, _)
Declared(n, key) ==
  LET own == Entries(baseData[n], "mergedKeys")
  IN IF key \in DOMAIN own THEN own[key]
     ELSE IF parent[n] # None THEN Declared(parent[n], key)
     ELSE IF key = "tags" THEN "stringArray"
     ELSE "none"

\* The entries of an object value, none for any other value or a missing key.
ObjectValue(data, key) ==
  IF key \in DOMAIN data /\ data[key].kind = "object" THEN data[key].obj
  ELSE NoObj

\* value is the object with the entries of both, those of own winning.
IsOwnOverParent(value, up, own) ==
  /\ value.kind = "object"
  /\ DOMAIN value.obj = (DOMAIN up) \cup (DOMAIN own)
  /\ \A sub \in DOMAIN value.obj :
       value.obj[sub] = IF sub \in DOMAIN own THEN own[sub] ELSE up[sub]

\* C5: a strategy that a directory's own mergedKeys declares for a key
\* applies to that key in the effective Data of every descendant, at any
\* depth, the nearest declaration deciding, whatever the nodes between
\* declare for other keys.
DeclarationsReachDescendants ==
  \A n \in Objects :
    cache[n].set =>
      LET up == ParentData(cache, n)
          own == PageData(n, baseData[n])
      IN \A key \in Keys :
           /\ Declared(n, key) \in {"array", "stringArray"} =>
                IsFirstOccurrences(
                  cache[n].val[key],
                  Coerced(Declared(n, key),
                          ListValue(up, key) \o ListValue(own, key)))
           /\ Declared(n, key) = "object" =>
                IsOwnOverParent(cache[n].val[key], ObjectValue(up, key),
                                ObjectValue(own, key))

\* The own value of key nearest to n on its chain, as a list of at most one.
RECURSIVE Nearest(_, _)
Nearest(n, key) ==
  IF key \in DOMAIN PageData(n, baseData[n])
  THEN <<PageData(n, baseData[n])[key]>>
  ELSE IF parent[n] = None THEN <<>>
  ELSE Nearest(parent[n], key)

\* Every populated cache of the tree, on title, which no declaration names:
\* the nearest own title up the tree, no title when there is none.
NearestTitle ==
  \A n \in Objects :
    cache[n].set =>
      IF Nearest(n, "title") = <<>> THEN "title" \notin DOMAIN cache[n].val
      ELSE /\ "title" \in DOMAIN cache[n].val
           /\ cache[n].val["title"] = Nearest(n, "title")[1]

\* C6: a read that computes the effective Data gives, for a key that the
\* merged mergedKeys do not name, the own value when the own Data (for a
\* Page, with its page reference) has the key and the parent's effective
\* value otherwise, so the nearest definition up the tree; and for a key
\* with strategy object the entries of the parent's effective object and of
\* the own object, the own entries winning.
OwnDataWins ==
  /\ []NearestTitle
  /\ [][\A n \in Receiver :
             (~cache[n].set /\ ReadData(n)) =>
               LET up == ParentData(cache', n)
                   own == PageData(n, baseData[n])
                   types == MergedKeys(up, own)
               IN \A key \in Keys :
                    /\ key \notin DOMAIN types =>
                         IF key \in DOMAIN own
                         THEN key \in DOMAIN ret' /\ ret'[key] = own[key]
                         ELSE IF key \in DOMAIN up
                         THEN key \in DOMAIN ret' /\ ret'[key] = up[key]
                         ELSE key \notin DOMAIN ret'
                    /\ (key \in DOMAIN types /\ types[key] = "object") =>
                         IsOwnOverParent(ret'[key], ObjectValue(up, key),
                                         ObjectValue(own, key))
       ]_vars

\* C6 witness: a node under a directory has been read; both have an own
\* title and an own object o with entry x, o is merged as an object, and the
\* node's title and x are its own while y comes from neither but the own.
OwnDataWinsWitness ==
  /\ op.name = "data"
  /\ ~op.hit
  /\ parent[op.this] # None
  /\ baseData[op.this] = ObjectXY
  /\ {"title", "o"} \subseteq DOMAIN cache[parent[op.this]].val
  /\ cache[parent[op.this]].val["title"] = Scalar("a")
  /\ cache[parent[op.this]].val["o"] = Object([x \in {"x"} |-> "a"])
  /\ ret["title"] = Scalar("b")
  /\ ret["o"] = Object(("x" :> "b") @@ ("y" :> "b"))

\* --------------------------------------------------------------- the walk

\* Names of subdirectories, and the static files of the site.
DirNames == {"s", "t"}
Files == {"f", "g"}

\* The pages and the static files stored in some directory.
StoredPages == UNION {{pages[d][i].value : i \in 1..Len(pages[d])} : d \in Dirs}
StoredFiles == UNION {{staticFiles[d][i] : i \in 1..Len(staticFiles[d])} : d \in Dirs}

\* The entries of the page maps of the directories S.
RECURSIVE EntriesOf(_)
EntriesOf(S) ==
  IF S = {} THEN 0
  ELSE LET d == CHOOSE e \in S : TRUE IN Len(pages[d]) + EntriesOf(S \ {d})

\* Entries of the page maps beyond one for each stored page.
Surplus == EntriesOf(Dirs) - Cardinality(StoredPages)

\* What the site holds: directories, pages, static files, and the entries
\* that store a page a second time.
TreeObjects == created + made + Cardinality(StoredFiles) + Surplus

\* The walker makes directories, pages and static files, and stores a page
\* under the basename of its source path.
NextTree ==
  \/ TreeObjects < MaxTreeObjects /\ NewPage
  \/ TreeObjects < MaxTreeObjects
       /\ \E this \in Live, name \in DirNames : CreateDirectory(this, name)
  \/ \E this \in Live, page \in Made :
       /\ (page \in StoredPages /\ ~MapHas(pages[this], Basename(src[page])))
            => TreeObjects < MaxTreeObjects
       /\ SetPage(this, Basename(src[page]), page)
  \/ \E this \in Live, file \in Files :
       /\ file \notin StoredFiles => TreeObjects < MaxTreeObjects
       /\ SetStaticFile(this, file)

SpecTree == Init /\ [][NextTree]_vars

\* ------------------------------------------------------ claims on the walk

\* The directories of d's subtree, d included.
RECURSIVE DirsBelow(_)
DirsBelow(d) ==
  {d} \cup UNION {DirsBelow(dirs[d][i].value) : i \in 1..Len(dirs[d])}

\* How often x occurs in the sequence s.
Count(s, x) == Cardinality({i \in 1..Len(s) : s[i] = x})

\* The length of the first k of the sequences children.
RECURSIVE LengthBefore(_, _)
LengthBefore(children, k) ==
  IF k = 0 THEN 0 ELSE LengthBefore(children, k - 1) + Len(children[k])

\* seq starts with own and goes on with each of the sequences children, one
\* after the other, and with nothing else.
OwnThenChildren(seq, own, children) ==
  LET Start(k) == Len(own) + LengthBefore(children, k - 1)
  IN /\ Len(seq) = Len(own) + LengthBefore(children, Len(children))
     /\ SubSeq(seq, 1, Len(own)) = own
     /\ \A k \in 1..Len(children) :
          SubSeq(seq, Start(k) + 1, Start(k) + Len(children[k])) = children[k]

\* Every page occurs in the sequence of d once for each entry of a page map
\* of d's subtree that holds it, every static file once for each set of the
\* subtree it is in.
OncePerEntry(d) ==
  LET below == DirsBelow(d)
      PageEntries(x) ==
        Cardinality({<<e, i>> \in below \X (1..Len(PagePool)) :
                       i <= Len(pages[e]) /\ pages[e][i].value = x})
      FileEntries(x) ==
        Cardinality({e \in below :
                       \E i \in 1..Len(staticFiles[e]) : staticFiles[e][i] = x})
  IN /\ \A x \in Pages : Count(PagesOf(d), x) = PageEntries(x)
     /\ \A x \in Files : Count(StaticFilesOf(d), x) = FileEntries(x)

\* The sequence of every directory is its own entries, then the sequence of
\* each child directory in the order of the directory map.
Traversed ==
  \A d \in Live :
    /\ OwnThenChildren(PagesOf(d), MapValues(pages[d]),
                       [k \in 1..Len(dirs[d]) |-> PagesOf(dirs[d][k].value)])
    /\ OwnThenChildren(StaticFilesOf(d), staticFiles[d],
                       [k \in 1..Len(dirs[d]) |->
                          StaticFilesOf(dirs[d][k].value)])
    /\ OncePerEntry(d)

\* A call that stores an entry keeps the order the entries were first
\* inserted in: a new page, directory or file goes last, a stored name keeps
\* its place.
InsertionOrder ==
  /\ \A this \in Receiver, page \in Made :
       SetPage(this, Basename(src[page]), page) =>
         /\ op.hit' =>
              /\ Len(pages'[this]) = Len(pages[this])
              /\ \A i \in 1..Len(pages[this]) :
                   /\ pages'[this][i].key = pages[this][i].key
                   /\ pages'[this][i].value =
                        IF pages[this][i].key = Basename(src[page])
                        THEN page ELSE pages[this][i].value
         /\ ~op.hit' =>
              MapValues(pages'[this]) = Append(MapValues(pages[this]), page)
  /\ \A this \in Receiver, name \in DirNames :
       (CreateDirectory(this, name) /\ ~op.hit') =>
         MapValues(dirs'[this]) = Append(MapValues(dirs[this]), ret')
  /\ \A this \in Receiver, file \in Files :
       SetStaticFile(this, file) =>
         staticFiles'[this] =
           IF Count(staticFiles[this], file) > 0 THEN staticFiles[this]
           ELSE Append(staticFiles[this], file)

\* C7: getPages() and getStaticFiles() of a directory yield the directory's
\* own entries first, in the order they were inserted, then the sequence of
\* each child directory in the order the children were inserted; a page is
\* yielded once for each entry of the subtree's page maps that holds it. The
\* sequence is a function of the tree alone, so every call starts afresh and
\* two calls on an unchanged tree yield the same.
DepthFirstOwnFirst == []Traversed /\ [][InsertionOrder]_vars

\* C7 witness: the root stores a page of its own and two directories; the
\* directory made first yields nothing, the one made after it stores the
\* root's page again, and the root yields the page twice, once per entry.
DepthFirstOwnFirstWitness ==
  /\ Len(pages[Root]) = 1
  /\ Len(dirs[Root]) = 2
  /\ dirs[Root][1].value = DirPool[2]
  /\ dirs[Root][2].value = DirPool[3]
  /\ PagesOf(DirPool[2]) = <<>>
  /\ PagesOf(DirPool[3]) = MapValues(pages[Root])
  /\ Len(PagesOf(Root)) = 2

\* The root stores page "a" alone and one subdirectory, which stores page
\* "b" alone, and page "c" is added to the root.
AddedAfterSubdirectory(sub, a, b, c) ==
  /\ pages[Root] = <<[key |-> "a", value |-> a]>>
  /\ MapValues(dirs[Root]) = <<sub>>
  /\ pages[sub] = <<[key |-> "b", value |-> b]>>
  /\ dirs[sub] = <<>>
  /\ SetPage(Root, "c", c)

\* C8 as stated: the root stores page "a" and a subdirectory that stores
\* page "b"; when page "c" is then added to the root, getPages() of the root
\* yields exactly a, b, c.
TraversalOrder ==
  [][\A sub \in Live, a \in Made, b \in Made, c \in Made :
       AddedAfterSubdirectory(sub, a, b, c) => PagesOf(Root)' = <<a, b, c>>
    ]_vars

\* C8 as amended: the root stores page "a" and a subdirectory that stores
\* page "b"; when page "c" is then added to the root, getPages() of the root
\* yields exactly a, c, b: the root's own pages come before the
\* subdirectory's, whenever they were added.
TraversalOrderOwnFirst ==
  [][\A sub \in Live, a \in Made, b \in Made, c \in Made :
       AddedAfterSubdirectory(sub, a, b, c) => PagesOf(Root)' = <<a, c, b>>
    ]_vars

\* C8 witness: page "c" has just been added to the root, after page "a" and
\* the subdirectory of page "b", and the root yields a, c, b.
TraversalOrderWitness ==
  /\ op.name = "setPage"
  /\ op.this = Root
  /\ ~op.hit
  /\ [i \in 1..Len(pages[Root]) |-> pages[Root][i].key] = <<"a", "c">>
  /\ Len(dirs[Root]) = 1
  /\ pages[dirs[Root][1].value] = <<[key |-> "b", value |-> "b"]>>
  /\ dirs[dirs[Root][1].value] = <<>>
  /\ PagesOf(Root) = <<"a", "c", "b">>

\* ----------------------------------------------------------- the rebuild

\* The content hashes the writer records.
Hashes == {"H1", "H2"}

\* On a rebuild the walker reloads the file "x" of a directory into a new
\* page or removes its page, and the writer records the hash of what it
\* wrote for a page.
NextHash ==
  \/ Walk("x")
  \/ \E this \in Live : UnsetPage(this, "x")
  \/ \E page \in Made, hash \in Hashes : SetHash(page, hash)

SpecHash == Init /\ [][NextHash]_vars

\* The pages a directory stores under a name: one, or none.
StoredUnder(this, name) ==
  {pages[this][i].value :
     i \in {j \in 1..Len(pages[this]) : pages[this][j].key = name}}

\* C9: when setPage(name, newPage) is called on a directory that stores a
\* page under name, newPage's hash is afterwards the hash that page had just
\* before the call; when the directory stores none under name, never set or
\* removed by unsetPage, newPage's hash is left as it was.
HashCarryOver ==
  [][\A this \in Receiver, newPage \in Made :
       SetPage(this, "x", newPage) =>
         /\ \A previous \in StoredUnder(this, "x") :
              dest'[newPage].hash = dest[previous].hash
         /\ StoredUnder(this, "x") = {} =>
              dest'[newPage].hash = dest[newPage].hash
         /\ (op.name = "unsetPage" /\ op.this = this) =>
              dest'[newPage].hash = dest[newPage].hash
    ]_vars

\* C9 witness: a page without a hash of its own has just replaced, under
\* "x", the page the writer had recorded "H1" for, and now has "H1" too.
HashCarryOverWitness ==
  /\ op.name = "setPage"
  /\ op.hit
  /\ \E newPage \in Made, previous \in Made :
       /\ newPage # previous
       /\ MapGet(pages[op.this], "x") = newPage
       /\ parent[previous] = op.this
       /\ dest[previous].hash = "H1"
       /\ dest[newPage].hash = "H1"

\* -------------------------------------------------------- the components

\* Names of components. A component is named by the directory that
\* registers it.
CompNames == {"button", "icon"}
Registries(this) ==
  {[set |-> TRUE, map |-> [name \in S |-> this]] : S \in SUBSET CompNames}

\* The component loader makes directories and assigns the registry of the
\* components found in a directory's components folder.
NextComp ==
  \/ created < MaxObjects
       /\ \E this \in Live, name \in DirNames : CreateDirectory(this, name)
  \/ \E this \in Live :
       \E registry \in Registries(this) : SetComponents(this, registry)

SpecComp == Init /\ [][NextComp]_vars

\* The directories of d's chain that register name.
Registering(d, name) ==
  {e \in Chain(d) : components[e].set /\ name \in DOMAIN components[e].map}

\* The directory of S nearest to d: the one whose chain holds all of S.
NearestOf(S) == CHOOSE e \in S : S \subseteq Chain(e)

\* C10: for every directory d, getComponents() is the union of the
\* registries of d and of its ancestors, the nearer directory's entry
\* winning: a name is in it exactly when d or an ancestor registers it, with
\* the component of the nearest that does, also when d or a directory
\* between has no registry of its own.
ComponentsInherited ==
  \A d \in Live, name \in CompNames :
    LET found == Components(d)
        from == Registering(d, name)
    IN IF from = {}
       THEN ~found.set \/ name \notin DOMAIN found.map
       ELSE /\ found.set
            /\ name \in DOMAIN found.map
            /\ found.map[name] = components[NearestOf(from)].map[name]

\* ------------------------------------------------------------ the render

\* What the renderer and the processors write.
Markups == {"", "ab"}
Extensions == {".html", ".css"}

\* Processors write strings to the content of the pages, read the content
\* and the document, and change the documents they got.
NextContent ==
  \/ created + made < MaxObjects /\ NewPage
  \/ \E page \in Made, ext \in Extensions : SetExt(page, ext)
  \/ \E page \in Made, t \in Markups : SetContent(page, Text(t))
  \/ \E page \in Made : SetContent(page, NoContent)
  \/ \E page \in Made : GetContent(page)
  \/ \E page \in Made :
       (Parses(page) => Len(heap) < MaxDocuments) /\ GetDocument(page)
  \/ \E page \in Made :
       /\ handle[page] # None
       /\ Len(NodesOf(heap, handle[page])) < MaxNodes
       /\ Mutate(page, "x")

SpecContent == Init /\ [][NextContent]_vars

\* The same with bytes for content, documents assigned, and writes of a
\* value whose conversion fails.
NextWrite ==
  \/ NextContent
  \/ \E page \in Made : SetContent(page, Bytes("1,2"))
  \/ \E page \in Made : Len(heap) < MaxDocuments /\ SetDocument(page, "ab")
  \/ \E page \in Made : UnsetDocument(page)
  \/ \E page \in Made : SetContentThrows(page)

SpecWrite == Init /\ [][NextWrite]_vars

\* C13: setting content leaves no held document, setting document leaves no
\* held content, and no page ever holds both a raw content and a parsed
\* document.
OneRepresentation ==
  /\ op.name = "setContent" => document[op.this] = None
  /\ op.name = "setDocument" => content[op.this] = NoContent
  /\ \A page \in Made :
       ~(content[page].kind # "undefined" /\ document[page] # None)

\* C14: on an .html or .htm page whose content was set to a string, a read
\* of content returns the markup of the document that a caller got from
\* reading document, with every node appended to it since, as long as
\* neither content nor document has been assigned again; also when content
\* was read in between.
MutationsReflected ==
  [][\A page \in Receiver :
       ( /\ handle[page] # None
         /\ dest[page].ext \in {".html", ".htm"}
         /\ GetContent(page) ) =>
         ret' = Text(DocumentToString(NodesOf(heap, handle[page])))
    ]_vars

\* What a read of content would return.
Observed(page) ==
  IF document[page] # None
  THEN Text(DocumentToString(NodesOf(heap, document[page])))
  ELSE content[page]

\* C15: a write of content that fails in the conversion leaves the content
\* and the document of the page as they were, and so what a read of content
\* returns.
FailedWriteKeepsContent ==
  [][\A page \in Receiver :
       SetContentThrows(page) =>
         /\ content'[page] = content[page]
         /\ document'[page] = document[page]
         /\ Observed(page)' = Observed(page)
    ]_vars

\* ---------------------------------------------------------------- the urls

Index == ("path" :> Path(TRUE, <<"a", "index">>)) @@ ("ext" :> ".html")
Html == [x \in {"ext"} |-> ".html"]
Css == [x \in {"ext"} |-> ".css"]
\* The Dest fragments updateDest is given.
Fragments == {Index, Html, Css}
\* The prettyUrls option.
Modes == {"false", "no-html-extension"}
\* The urls Page.create is given.
Urls == {"/a/index.html", "/b.css"}

\* Pages are made, created and stored in the root, their destinations
\* updated, and the effective Data read and refreshed.
NextUrl ==
  \/ created + made < MaxUrlObjects /\ NewPage
  \/ created + made < MaxUrlObjects
       /\ \E url \in Urls : Create(url, Text("ab"))
  \/ \E page \in Made : parent[page] = None /\ SetPage(Root, page, page)
  \/ \E page \in Made, frag \in Fragments, prettyUrl \in Modes :
       UpdateDest(page, frag, prettyUrl)
  \/ \E n \in Objects : RefreshCache(n)
  \/ \E n \in Objects : ReadData(n)

SpecUrl == Init /\ [][NextUrl]_vars

\* The url of the effective Data a page holds.
UrlOf(c, page) ==
  IF c[page].set /\ "url" \in DOMAIN c[page].val
  THEN c[page].val["url"].atom
  ELSE None

\* The prettyUrl of the call recorded: Page.create passes none.
ModeOf(call) == IF call.name = "create" THEN "false" ELSE call.prettyUrl

\* C11 as stated: after updateDest the url is the path without the trailing
\* "index" when ext is ".html" and the basename "index"; otherwise the path
\* when the mode is "no-html-extension", whatever the extension; otherwise
\* path + ext.
UrlDerivation ==
  [][\A page \in Receiver :
       op'.name \in {"updateDest", "create"} =>
         LET path == Str(dest'[page].path)
             ext == dest'[page].ext
             url == UrlOf(cache', page)
         IN IF ext = ".html" /\ Basename(dest'[page].path) = "index"
            THEN url \o "index" = path
            ELSE IF ModeOf(op') = "no-html-extension"
            THEN url = path
            ELSE url = path \o ext
    ]_vars

\* C11: after updateDest the url is the path without the trailing "index"
\* when ext is ".html" and the basename "index"; otherwise the path when ext
\* is ".html" and the mode is "no-html-extension"; otherwise path + ext.
UrlDerivationHtml ==
  [][\A page \in Receiver :
       op'.name \in {"updateDest", "create"} =>
         LET path == Str(dest'[page].path)
             ext == dest'[page].ext
             url == UrlOf(cache', page)
         IN IF ext = ".html" /\ Basename(dest'[page].path) = "index"
            THEN url \o "index" = path
            ELSE IF ext = ".html" /\ ModeOf(op') = "no-html-extension"
            THEN url = path
            ELSE url = path \o ext
    ]_vars

\* updateDest({ext: ".css"}, "no-html-extension") has given "/a.css".
UrlDerivationWitness ==
  /\ op.name = "updateDest"
  /\ op.prettyUrl = "no-html-extension"
  /\ op.dest = Css
  /\ dest[op.this].path = Path(TRUE, <<"a">>)
  /\ UrlOf(cache, op.this) = "/a.css"

\* C12: an updateDest that repeats the call before it, on the same page with
\* the same arguments, changes neither Dest nor the url nor any cache.
Idempotent ==
  [][\A page \in Receiver :
       (op'.name = "updateDest" /\ op'.again) =>
         /\ dest' = dest
         /\ cache' = cache
         /\ UrlOf(cache', page) = UrlOf(cache, page)
    ]_vars

\* updateDest({path: "/a/index", ext: ".html"}) twice: the url is "/a/".
IdempotentWitness ==
  /\ op.name = "updateDest"
  /\ op.again
  /\ op.dest = Index
  /\ dest[op.this] = [path |-> Path(TRUE, <<"a", "index">>), ext |-> ".html",
                      hash |-> None]
  /\ UrlOf(cache, op.this) = "/a/"

\* C20: a refreshCache() on the page or on a directory above it that follows
\* the updateDest leaves the url derived to the next read of the page's
\* effective Data.
UrlSurvivesRefresh ==
  [][\A n \in Receiver :
       ( /\ op.name \in {"updateDest", "create"}
         /\ n = op.this \/ (n \in Dirs /\ op.this \in Subtree(n))
         /\ RefreshCache(n) ) =>
         UrlOf(Filled(cache', op.this), op.this) = UrlOf(cache, op.this)
    ]_vars

\* ------------------------------------------------ moving and duplicating

\* The index duplicate is given: the numbers 1 and 2 and the string "1".
Indices == {"#1", "1", "#2"}

\* Pages are made with and without a source, stored, removed, reparented
\* and duplicated.
NextMove ==
  \/ created + made < MaxMoveObjects /\ NewPage
  \/ created + made < MaxMoveObjects /\ NewPageNoSrc
  \/ created + made < MaxMoveObjects
       /\ \E this \in Live : CreateDirectory(this, "x")
  \/ \E this \in Live, page \in Made : SetPage(this, "p", page)
  \/ \E this \in Live : UnsetPage(this, "p")
  \/ \E page \in Made, par \in Live \cup {None} : SetParent(page, par)
  \/ created + made < MaxMoveObjects
       /\ \E page \in Made, index \in Indices, data \in CacheBags :
            Duplicate(page, index, data)

SpecMove == Init /\ [][NextMove]_vars

\* The path the reparenting of n under par is to give.
JoinedUnder(par, n) ==
  Join(IF par = None THEN RootPath ELSE dest[par].path, Basename(dest[n].path))

\* C16: setting the parent of a node to d, directly, by d.setPage or by
\* d.createDirectory, sets its Dest.path to join(d.Dest.path, basename of the
\* previous Dest.path), with "/" for no parent, and changes neither the
\* node's ext, nor its hash but for the carry-over of setPage, nor d's Dest.
ReparentingJoins ==
  [][/\ \A n \in Receiver, par \in Live \cup {None} :
          SetParent(n, par) =>
            /\ dest'[n] = [dest[n] EXCEPT !.path = JoinedUnder(par, n)]
            /\ par # None => dest'[par] = dest[par]
     /\ \A d \in Receiver, page \in Made :
          SetPage(d, "p", page) =>
            /\ dest'[page].path = JoinedUnder(d, page)
            /\ dest'[page].ext = dest[page].ext
            /\ dest'[page].hash =
                 IF MapHas(pages[d], "p")
                 THEN dest[MapGet(pages[d], "p")].hash
                 ELSE dest[page].hash
            /\ dest'[d] = dest[d]
     /\ \A d \in Receiver :
          CreateDirectory(d, "x") =>
            /\ dest'[ret'] = [path |-> Join(dest[d].path, "x"), ext |-> "",
                              hash |-> None]
            /\ dest'[d] = dest[d]
    ]_vars

\* C17: the duplicates of a page under two different indices differ in
\* Src.path from each other and from the page; a duplicate has the page's
\* parent, a copy of its Dest and, as own Data, the page's effective Data
\* overlaid with the data given, without `page`; the page keeps its Src,
\* Dest and own Data.
DuplicatesDistinct ==
  [][\A this \in Receiver, index \in Indices, data \in CacheBags :
       Duplicate(this, index, data) =>
         /\ src'[ret'] # src[this]
         /\ (op.name = "duplicate" /\ op.this = this /\ op.index # index)
              => src'[ret'] # src[ret]
         /\ parent'[ret'] = parent[this]
         /\ dest'[ret'] = dest[this]
         /\ baseData'[ret'] =
              Without(Spread(Filled(cache, this)[this].val, data), "page")
         /\ src'[this] = src[this]
         /\ dest'[this] = dest[this]
         /\ baseData'[this] = baseData[this]
    ]_vars

\* ---------------------------------------------------------------- ownership

\* The names pages are stored under.
PageNames == {"p", "q"}

\* The tree is built and changed by createDirectory, setPage and unsetPage
\* alone.
NextOwn ==
  \/ created + made < MaxMoveObjects /\ NewPage
  \/ created + made < MaxMoveObjects
       /\ \E this \in Live : CreateDirectory(this, "x")
  \/ \E this \in Live, name \in PageNames, page \in Made :
       SetPage(this, name, page)
  \/ \E this \in Live, name \in PageNames : UnsetPage(this, name)

SpecOwn == Init /\ [][NextOwn]_vars

\* The directories whose page map stores the page.
Holders(page) ==
  {d \in Live : \E i \in 1..Len(pages[d]) : pages[d][i].value = page}

\* C18: a page stored in a directory's page map has the directory as its
\* parent, a page with a parent is stored in at most one directory, and a
\* directory stored in a directory's map has that directory as its parent.
OwnershipAgrees ==
  /\ \A page \in Made : \A d \in Holders(page) : parent[page] = d
  /\ \A page \in Made :
       parent[page] # None => Cardinality(Holders(page)) <= 1
  /\ \A d \in Live : \A i \in 1..Len(dirs[d]) : parent[dirs[d][i].value] = d

\* ------------------------------------------------------------- coherence

\* cascade(parent's current effective Data, own Data) computed afresh: what
\* a first read of n would return in this state.
Afresh(n) ==
  Cascade(IF parent[n] = None THEN EmptyData
          ELSE Filled(cache, parent[n])[parent[n]].val,
          PageData(n, baseData[n]))

\* C19: a populated cache holds, on every key other than url, the value the
\* cascade of the parent's current effective Data and the node's current own
\* Data computes afresh.
CacheCoherent ==
  \A n \in Objects :
    cache[n].set =>
      /\ (DOMAIN cache[n].val) \ {"url"} = (DOMAIN Afresh(n)) \ {"url"}
      /\ \A key \in (DOMAIN cache[n].val) \ {"url"} :
           cache[n].val[key] = Afresh(n)[key]

====
